---- MODULE Spec2Model ----
(***************************************************************************)
(* Model of the smart-meter telemetry agent                                *)
(* (hardware/iot-integration/python/iot_sensor_reader.py).                 *)
(*                                                                         *)
(* Units.  Time is in whole seconds.  Voltage and current are in whole     *)
(* volts and amperes, power_factor in hundredths.  Energy is an exact      *)
(* rational with the fixed denominator EnergyDen = 100 * 3600: a variable  *)
(* such as cumulative_energy_wh holds the numerator, so that               *)
(* int(energy_wh) is energy \div EnergyDen.                                *)
(***************************************************************************)
EXTENDS Integers, Sequences, FiniteSets, TLC

\* ------------------------------------------------------------------ bounds
\* Number of iterations of the while-loop of run() that the model explores.
MaxCycles == 3
\* Number of iterations explored where the rolling buffer fills up and evicts.
MaxBufferCycles == 7
\* Number of backward steps of the wall clock (time.time() is not monotonic).
MaxSkews == 1
\* config['reading_interval'] / --interval, in seconds.
reading_interval == 5

\* --------------------------------------------------------------- constants
buffer_size == 6
CooldownSeconds == 60
PostTimeout == 10
DiagnosticReadings == 5
DiagnosticSeconds == 1
AdcFullScale == 32767
HoursDen == 3600
PfDen == 100
HttpOK == 200
\* Size of one backward step of the wall clock, in seconds.
SkewBack == 7

EnergyDen == PfDen * HoursDen

\* ----------------------------------------------------------- configuration
meter_id == "meter-001"
private_key == "key-A"
manufacturer == "unknown"
serial_number == "0000"
\* config.get('voltage_calibration', 230.0 / 3.3) times the 3.3 V reference
voltage_full_scale == 230
\* config.get('current_calibration', 100.0 / 3.3) times the 3.3 V reference
current_full_scale == 100
\* config.get('default_power_factor', 0.95), in hundredths
power_factor == 95
\* config.get('grid_frequency', 50.0)
frequency == 50

\* ------------------------------------------------------------------ inputs
\* What the two ADC channels deliver to one read_sensors call: either the
\* I2C access raises (ok = FALSE) or it returns two signed 16-bit counts.
SensorInputs ==
    { [ok |-> FALSE, voltage_raw |-> 0,     current_raw |-> 0],
      [ok |-> TRUE,  voltage_raw |-> 32767, current_raw |-> 3277],
      [ok |-> TRUE,  voltage_raw |-> 32767, current_raw |-> -3277] }

\* ADC counts for the diagnostic: a failed access, 0 V, 0.01 V, and
\* 100, 110, 120, 130, 140 V (with 0.10 A to 0.50 A)
DiagnosticInputs ==
    { [ok |-> FALSE, voltage_raw |-> 0,     current_raw |-> 0],
      [ok |-> TRUE,  voltage_raw |-> 1,     current_raw |-> 3],
      [ok |-> TRUE,  voltage_raw |-> 14247, current_raw |-> 33],
      [ok |-> TRUE,  voltage_raw |-> 15671, current_raw |-> 66],
      [ok |-> TRUE,  voltage_raw |-> 17096, current_raw |-> 98],
      [ok |-> TRUE,  voltage_raw |-> 18521, current_raw |-> 131],
      [ok |-> TRUE,  voltage_raw |-> 19945, current_raw |-> 164] }

\* required_fields of load_config
RequiredKeys == {"meter_id", "oracle_url", "private_key"}

\* What --config names: no file, a file that is not JSON, or a JSON object
\* holding some of the required keys
ConfigFiles ==
    { [file |-> "missing", keys |-> {}], [file |-> "invalid", keys |-> {}] }
    \cup { [file |-> "ok", keys |-> k] : k \in SUBSET RequiredKeys }

\* What requests.post does: an HTTP status, or it raises.
PostOutcomes ==
    { [kind |-> "status", status |-> 200],
      [kind |-> "status", status |-> 201],
      [kind |-> "status", status |-> 500],
      [kind |-> "timeout", status |-> 0],
      [kind |-> "error", status |-> 0] }

\* Seconds that one requests.post call takes.
PostDurations == {1, PostTimeout}

\* ----------------------------------------------------------------- helpers
Max(a, b) == IF a >= b THEN a ELSE b

\* round() of the quotient n / d to the nearest whole unit
RoundDiv(n, d) ==
    IF n >= 0 THEN (2 * n + d) \div (2 * d)
              ELSE -((2 * (-n) + d) \div (2 * d))

\* int() of a value with denominator d: truncation toward zero
IntTrunc(n, d) == IF n >= 0 THEN n \div d ELSE -((-n) \div d)

NoReading == [timestamp |-> -1, voltage |-> 0, current |-> 0,
              power_factor |-> 0, frequency |-> 0,
              temperature |-> 0, humidity |-> 0]

\* read_sensors that answers a failed access with the full-scale values
read_sensors_nominal(inp, t) ==
    [timestamp    |-> t * 1000,
     voltage      |-> IF inp.ok
                      THEN RoundDiv(inp.voltage_raw * voltage_full_scale, AdcFullScale)
                      ELSE voltage_full_scale,
     current      |-> IF inp.ok
                      THEN RoundDiv(inp.current_raw * current_full_scale, AdcFullScale)
                      ELSE current_full_scale,
     power_factor |-> power_factor,
     frequency    |-> frequency,
     temperature  |-> 25 + (t % 10),
     humidity     |-> 45 + (t % 20)]

\* read_sensors: calibrated SensorReading, or the all-zero reading when the
\* access to the ADC raises.
read_sensors(inp, t) ==
    IF inp.ok
    THEN [timestamp    |-> t * 1000,
          voltage      |-> RoundDiv(inp.voltage_raw * voltage_full_scale, AdcFullScale),
          current      |-> RoundDiv(inp.current_raw * current_full_scale, AdcFullScale),
          power_factor |-> power_factor,
          frequency    |-> frequency,
          temperature  |-> 25 + (t % 10),
          humidity     |-> 45 + (t % 20)]
    ELSE [timestamp    |-> t * 1000,
          voltage      |-> 0,
          current      |-> 0,
          power_factor |-> 0,
          frequency    |-> 0,
          temperature  |-> 0,
          humidity     |-> 0]

\* read_sensors at the resolution of its round(..., 2): voltage and current in
\* hundredths of a volt / ampere.  Used where no product with the elapsed
\* time is formed (run_diagnostic), so that the rounding of averages shows.
read_sensors_centi(inp, t) ==
    IF inp.ok
    THEN [timestamp    |-> t * 1000,
          voltage      |-> RoundDiv(inp.voltage_raw * voltage_full_scale * 100, AdcFullScale),
          current      |-> RoundDiv(inp.current_raw * current_full_scale * 100, AdcFullScale),
          power_factor |-> power_factor,
          frequency    |-> frequency,
          temperature  |-> 25 + (t % 10),
          humidity     |-> 45 + (t % 20)]
    ELSE [timestamp    |-> t * 1000,
          voltage      |-> 0,
          current      |-> 0,
          power_factor |-> 0,
          frequency    |-> 0,
          temperature  |-> 0,
          humidity     |-> 0]

\* calculate_energy with the apparent power in place of the real power
calculate_energy_apparent(reading, time_delta) ==
    Max(0, reading.voltage * reading.current * PfDen * time_delta)

\* calculate_energy without the clamp of line 184
calculate_energy_signed(reading, time_delta) ==
    reading.voltage * reading.current * reading.power_factor * time_delta

\* calculate_energy: numerator of the energy in Wh over EnergyDen
calculate_energy(reading, time_delta) ==
    LET apparent_power == reading.voltage * reading.current
        real_power     == apparent_power * reading.power_factor
        energy_wh      == real_power * time_delta
    IN  Max(0, energy_wh)

\* generate_device_id: sha256 taken as injective on its input
generate_device_id == <<"sha256", meter_id, manufacturer, serial_number>>

\* Keys of a packet dictionary in the order json.dumps(sort_keys=True) uses.
SortedKeys ==
    << "cumulative_energy", "device_id", "energy_wh", "firmware_version",
       "meter_id", "protocol_version", "sensor_readings", "signature",
       "timestamp" >>

\* json.dumps(packet, sort_keys=True, separators=(',', ':'))
canonical_json(packet) ==
    LET keys == SelectSeq(SortedKeys, LAMBDA k : k \in DOMAIN packet)
    IN  [i \in 1..Len(keys) |-> <<keys[i], packet[keys[i]]>>]

\* sign_packet: sha256(sha256(canonical_json) + private_key), with sha256
\* taken as injective
sign_packet(packet) ==
    <<"sha256", <<"sha256", canonical_json(packet)>>, private_key>>

\* PoEPacket whose energy field is rounded up to the next whole Wh
PoEPacket_ceil(energy, cumulative, readings, t) ==
    [device_id         |-> generate_device_id,
     timestamp         |-> t * 1000,
     energy_wh         |-> IntTrunc(energy + EnergyDen - 1, EnergyDen),
     cumulative_energy |-> IntTrunc(cumulative, EnergyDen),
     sensor_readings   |-> readings,
     firmware_version  |-> "1.0.0",
     protocol_version  |-> "poe-v1"]

\* PoEPacket(...) and asdict(packet): lines 225-233
PoEPacket(energy, cumulative, readings, t) ==
    [device_id         |-> generate_device_id,
     timestamp         |-> t * 1000,
     energy_wh         |-> IntTrunc(energy, EnergyDen),
     cumulative_energy |-> IntTrunc(cumulative, EnergyDen),
     sensor_readings   |-> readings,
     firmware_version  |-> "1.0.0",
     protocol_version  |-> "poe-v1"]

\* The two assignments that follow the signing, lines 236-237
AttachSignature(packet_dict) ==
    (packet_dict @@ [signature |-> sign_packet(packet_dict)])
        @@ [meter_id |-> meter_id]

\* BufferAppend that drops the newest reading when the buffer is full
BufferAppend_keep_oldest(buf, reading) ==
    IF Len(buf) >= buffer_size THEN buf ELSE Append(buf, reading)

\* reading_buffer.append(reading); pop(0) when longer than buffer_size
BufferAppend(buf, reading) ==
    LET b == Append(buf, reading)
    IN  IF Len(b) > buffer_size THEN Tail(b) ELSE b

\* IsSuccess that accepts every status from 200 to 299
IsSuccess_2xx(outcome) ==
    outcome.kind = "status" /\ outcome.status \in 200..299

\* response.status_code == 200
IsSuccess(outcome) == outcome.kind = "status" /\ outcome.status = HttpOK

\* ShouldSubmit with ">=" for ">"
ShouldSubmit_ge(energy) == energy >= 0

\* if energy_wh > 0
ShouldSubmit(energy) == energy > 0

\* SleepTime of a loop that sleeps the whole interval after every cycle
SleepTime_fixed(cycle_time) == reading_interval

\* sleep_time = max(0, self.reading_interval - cycle_time)
SleepTime(cycle_time) == Max(0, reading_interval - cycle_time)

NoPacket == [energy_wh |-> -1]

\* ------------------------------------------------------------------- state
VARIABLES
    pc,                    \* position of the process in main() / run()
    now,                   \* what time.time() returns
    cumulative_energy_wh,  \* self.cumulative_energy_wh (numerator over EnergyDen)
    last_reading_time,     \* self.last_reading_time
    readings_sent,         \* self.readings_sent
    readings_failed,       \* self.readings_failed
    reading_buffer,        \* run(): reading_buffer
    cycle_start,           \* run(): cycle_start
    reading,               \* run(): reading
    current_time,          \* run(): current_time
    energy_wh,             \* run(): energy_wh (numerator over EnergyDen)
    poe_packet,            \* the packet dictionary being built / sent
    response,              \* send_to_oracle: response / exception of the post,
                           \* until the statement after the call has run
    sleep_time,            \* run(): sleep_time
    diagnostic,            \* run(): diagnostic
    diag_readings,         \* run_diagnostic(): readings, until its result is logged
    config,                \* main(): keys of the loaded configuration
    mode,                  \* main(): args.diagnostic ("diagnostic") or not ("run")
    log,                   \* what the last step logged: level of the message
    report,                \* the "Session complete" line: <<sent, failed>>
    interrupted,           \* a KeyboardInterrupt has been delivered
    skews,                 \* backward clock steps so far
    cycle,                 \* iterations of the while-loop started so far
    n_reads,               \* read_sensors calls so far
    built,                 \* packets returned by create_poe_packet, in order
    submitted,             \* index in built of each packet given to send_to_oracle
    returned,              \* send_to_oracle calls that have returned
    cooldowns,             \* time.sleep(60) calls completed
    produced,              \* sum of the values calculate_energy returned to run()
    intervals,             \* <<last_reading_time, current_time>> of every increment added
    acquired,              \* every reading the loop of run() has taken, in order
    cyc                    \* facts about the current cycle (history)

vars == << pc, now, cumulative_energy_wh, last_reading_time, readings_sent,
           readings_failed, reading_buffer, cycle_start, reading, current_time,
           energy_wh, poe_packet, response, sleep_time, diagnostic, log,
           report, interrupted, skews, cycle, n_reads, built, submitted, returned,
           cooldowns, cyc, diag_readings, config, mode, produced,
           intervals, acquired >>

NoDiagnostic == [readings_taken |-> 0]

NoResponse == [kind |-> "none", status |-> 0]

\* History of one cycle: the total when it began, whether a packet was built,
\* how many send_to_oracle calls it made, whether it raised, whether its
\* submission failed, whether its sensor access failed.
NewCycle(total) ==
    [cum0 |-> total, built |-> FALSE, sends |-> 0, raised |-> FALSE,
     send_failed |-> FALSE, integrated |-> FALSE, fault |-> FALSE]

\* The state SmartMeterReader.__init__ leaves (lines 61-76) and the locals of
\* run() before its first cycle
Fresh ==
    /\ diag_readings = << >>
    /\ now = 0
    /\ cumulative_energy_wh = 0
    /\ last_reading_time = 0
    /\ readings_sent = 0
    /\ readings_failed = 0
    /\ reading_buffer = << >>
    /\ cycle_start = 0
    /\ energy_wh = 0
    /\ poe_packet = NoPacket
    /\ response = NoResponse
    /\ sleep_time = 0
    /\ diagnostic = NoDiagnostic
    /\ log = "info"
    /\ report = << >>
    /\ interrupted = FALSE
    /\ skews = 0
    /\ cycle = 0
    /\ n_reads = 0
    /\ built = << >>
    /\ submitted = << >>
    /\ returned = 0
    /\ cooldowns = 0
    /\ produced = 0
    /\ intervals = << >>
    /\ acquired = << >>
    /\ cyc = NewCycle(0)

\* A fresh reader with the process at position p, the configuration keys c
\* and the command-line mode m
InitAt(p, c, m) ==
    /\ pc = p
    /\ config = c
    /\ mode = m
    /\ reading = NoReading
    /\ current_time = 0
    /\ Fresh

\* SmartMeterReader.__init__ has run and main() is about to call run().
Init == InitAt("diag", RequiredKeys, "run")

\* ----------------------------------------------------------------- actions
RECURSIVE SumOf(_, _)
\* sum(r.<field> for r in readings)
SumOf(readings, field) ==
    IF readings = << >> THEN 0
    ELSE Head(readings)[field] + SumOf(Tail(readings), field)

\* run_diagnostic, lines 281-285: the readings it takes
diagnostic_readings(ins, t) ==
    [i \in 1..DiagnosticReadings |-> read_sensors_centi(ins[i], t)]

\* run_diagnostic with the verdict taken on the rounded average
run_diagnostic_rounded(readings, total) ==
    LET sum_v == SumOf(readings, "voltage")
        sum_c == SumOf(readings, "current")
    IN  [meter_id             |-> meter_id,
         voltage_avg          |-> RoundDiv(sum_v, Len(readings)),
         current_avg          |-> RoundDiv(sum_c, Len(readings)),
         sensor_status        |-> IF RoundDiv(sum_v, Len(readings)) > 0
                                  THEN "OK" ELSE "ERROR",
         readings_taken       |-> Len(readings),
         cumulative_energy_wh |-> total]

\* run_diagnostic, lines 287-298: the dictionary it returns; the averages are
\* in hundredths (round(avg, 2)), the verdict is taken on the unrounded
\* average.
run_diagnostic(readings, total) ==
    LET sum_v == SumOf(readings, "voltage")
        sum_c == SumOf(readings, "current")
    IN  [meter_id             |-> meter_id,
         voltage_avg          |-> RoundDiv(sum_v, Len(readings)),
         current_avg          |-> RoundDiv(sum_c, Len(readings)),
         sensor_status        |-> IF sum_v > 0 THEN "OK" ELSE "ERROR",
         readings_taken       |-> Len(readings),
         cumulative_energy_wh |-> total]

\* send_to_oracle that counts every HTTP response as sent
send_to_oracle_anystatus(sent, failed, outcome) ==
    IF outcome.kind = "status"
    THEN [sent |-> sent + 1, failed |-> failed,     ok |-> TRUE]
    ELSE [sent |-> sent,     failed |-> failed + 1, ok |-> FALSE]

\* send_to_oracle: the counters and the value returned for one outcome of
\* requests.post
send_to_oracle(sent, failed, outcome) ==
    IF IsSuccess(outcome)
    THEN [sent |-> sent + 1, failed |-> failed,     ok |-> TRUE]
    ELSE [sent |-> sent,     failed |-> failed + 1, ok |-> FALSE]

\* Positions of run() inside the try block of the loop (lines 317-360)
InTry == {"read", "integrate", "build", "sign", "send", "post", "update", "sleep"}

\* Positions of run() outside that try block: the start-up diagnostic, the
\* head of the loop, and the except-handler that sleeps 60 s
OutsideTry == {"diag", "diag_log", "loop", "cooldown"}

\* Positions of the try block at which a call raises an Exception that the
\* callee does not catch itself: building and signing the packet
RaisePoints == {"build", "sign"}

\* What the except-handler of the loop does to the failure counter (line 365-367)
FailedAfterException(failed) == failed

\* ExceptionTarget with a break in the handler
ExceptionTarget_break == "shutdown"

\* Where the except-handler of the loop leaves run(): it sleeps 60 s (line 367)
ExceptionTarget == "cooldown"

\* AfterSubmit that sends again at once when the submission failed
AfterSubmit_retry(ok) == IF ok THEN "update" ELSE "send"

\* Where the loop goes after send_to_oracle has returned ok (line 341-344)
AfterSubmit(ok) == "update"

\* InterruptTarget with the interrupt caught by the handler for Exception
InterruptTarget_caught(p) == IF p \in InTry THEN "cooldown" ELSE "main_except"

\* Where a KeyboardInterrupt takes the process from position p
InterruptTarget(p) == IF p \in InTry THEN "shutdown" ELSE "main_except"

\* run(), lines 306-307: the start-up diagnostic
RunDiagnostic ==
    /\ pc = "diag"
    /\ \E ins \in [1..DiagnosticReadings -> SensorInputs] :
          /\ diag_readings' = diagnostic_readings(ins, now)
          /\ diagnostic' = run_diagnostic(diag_readings', cumulative_energy_wh)
    /\ n_reads' = n_reads + Len(diag_readings')
    /\ now' = now + DiagnosticSeconds
    /\ pc' = "diag_log"
    /\ UNCHANGED << acquired, produced, intervals, config, mode, response, cumulative_energy_wh, last_reading_time, readings_sent,
                    readings_failed, reading_buffer, cycle_start, reading,
                    current_time, energy_wh, poe_packet, sleep_time, log,
                    report, interrupted, skews, cycle, built, submitted,
                    returned, cooldowns, cyc >>

\* run(), lines 308-312: log the diagnostic, create the empty buffer
LogDiagnostic ==
    /\ pc = "diag_log"
    /\ log' = "info"
    /\ diagnostic' = NoDiagnostic
    /\ diag_readings' = << >>
    /\ reading_buffer' = << >>
    /\ pc' = "loop"
    /\ UNCHANGED << acquired, produced, intervals, config, mode, response, now, cumulative_energy_wh, last_reading_time, readings_sent,
                    readings_failed, cycle_start, reading, current_time,
                    energy_wh, poe_packet, sleep_time, report, interrupted,
                    skews, cycle, n_reads, built, submitted, returned,
                    cooldowns, cyc >>

\* run(), lines 314-315: head of the loop
LoopTopAt(bound) ==
    /\ pc = "loop"
    /\ cycle < bound
    /\ cycle' = cycle + 1
    /\ cycle_start' = now
    /\ cyc' = NewCycle(cumulative_energy_wh)
    /\ pc' = "read"
    /\ UNCHANGED << acquired, produced, intervals, diag_readings, config, mode, response, now, cumulative_energy_wh, last_reading_time, readings_sent,
                    readings_failed, reading_buffer, reading, current_time,
                    energy_wh, poe_packet, sleep_time, diagnostic, log, report,
                    interrupted, skews, n_reads, built, submitted, returned,
                    cooldowns >>

\* The loop head, for at most MaxCycles cycles
LoopTop == LoopTopAt(MaxCycles)

\* run(), lines 319-324: read the sensors, append to the rolling buffer
ReadSensors ==
    /\ pc = "read"
    /\ \E inp \in SensorInputs :
          /\ reading' = read_sensors(inp, now)
          /\ log' = IF inp.ok THEN "debug" ELSE "error"
          /\ cyc' = [cyc EXCEPT !.fault = ~inp.ok]
    /\ reading_buffer' = BufferAppend(reading_buffer, reading')
    /\ acquired' = Append(acquired, reading')
    /\ n_reads' = n_reads + 1
    /\ pc' = "integrate"
    /\ UNCHANGED << produced, intervals, diag_readings, config, mode, response, now, cumulative_energy_wh, last_reading_time, readings_sent,
                    readings_failed, cycle_start, current_time, energy_wh,
                    poe_packet, sleep_time, diagnostic, report, interrupted,
                    skews, cycle, built, submitted, returned, cooldowns >>

\* Integrate with the total assigned instead of added to ("=" for "+=")
Integrate_assign ==
    /\ pc = "integrate"
    /\ current_time' = now
    /\ energy_wh' = calculate_energy(reading, now - last_reading_time)
    /\ IF ShouldSubmit(energy_wh')
       THEN /\ cumulative_energy_wh' = energy_wh'
            /\ intervals' = Append(intervals, << last_reading_time, now >>)
            /\ pc' = "build"
       ELSE /\ cumulative_energy_wh' = cumulative_energy_wh
            /\ intervals' = intervals
            /\ pc' = "update"
    /\ produced' = produced + energy_wh'
    /\ cyc' = [cyc EXCEPT !.integrated = TRUE]
    /\ UNCHANGED << acquired, diag_readings, config, mode, response, now, last_reading_time, readings_sent, readings_failed,
                    reading_buffer, cycle_start, reading, poe_packet,
                    sleep_time, diagnostic, log, report, interrupted, skews,
                    cycle, n_reads, built, submitted, returned, cooldowns >>

\* run(), lines 327-335: elapsed time, energy, cumulative total
Integrate ==
    /\ pc = "integrate"
    /\ current_time' = now
    /\ energy_wh' = calculate_energy(reading, now - last_reading_time)
    /\ IF ShouldSubmit(energy_wh')
       THEN /\ cumulative_energy_wh' = cumulative_energy_wh + energy_wh'
            /\ intervals' = Append(intervals, << last_reading_time, now >>)
            /\ pc' = "build"
       ELSE /\ cumulative_energy_wh' = cumulative_energy_wh
            /\ intervals' = intervals
            /\ pc' = "update"
    /\ produced' = produced + energy_wh'
    /\ cyc' = [cyc EXCEPT !.integrated = TRUE]
    /\ UNCHANGED << acquired, diag_readings, config, mode, response, now, last_reading_time, readings_sent, readings_failed,
                    reading_buffer, cycle_start, reading, poe_packet,
                    sleep_time, diagnostic, log, report, interrupted, skews,
                    cycle, n_reads, built, submitted, returned, cooldowns >>

\* BuildPacket that also advances last_reading_time
BuildPacket_advance ==
    /\ pc = "build"
    /\ poe_packet' = PoEPacket(energy_wh, cumulative_energy_wh, reading_buffer, now)
    /\ last_reading_time' = current_time
    /\ pc' = "sign"
    /\ UNCHANGED << acquired, produced, intervals, diag_readings, config,
                    mode, response, now, cumulative_energy_wh, readings_sent,
                    readings_failed, reading_buffer, cycle_start, reading,
                    current_time, energy_wh, sleep_time, diagnostic, log,
                    report, interrupted, skews, cycle, n_reads, built,
                    submitted, returned, cooldowns, cyc >>

\* create_poe_packet, lines 225-233: the record and its dictionary
BuildPacket ==
    /\ pc = "build"
    /\ poe_packet' = PoEPacket(energy_wh, cumulative_energy_wh, reading_buffer, now)
    /\ pc' = "sign"
    /\ UNCHANGED << acquired, produced, intervals, diag_readings, config, mode, response, now, cumulative_energy_wh, last_reading_time, readings_sent,
                    readings_failed, reading_buffer, cycle_start, reading,
                    current_time, energy_wh, sleep_time, diagnostic, log,
                    report, interrupted, skews, cycle, n_reads, built,
                    submitted, returned, cooldowns, cyc >>

\* create_poe_packet, lines 236-239: sign, attach, return to run()
SignPacket ==
    /\ pc = "sign"
    /\ poe_packet' = AttachSignature(poe_packet)
    /\ built' = Append(built, poe_packet')
    /\ cyc' = [cyc EXCEPT !.built = TRUE]
    /\ pc' = "send"
    /\ UNCHANGED << acquired, produced, intervals, diag_readings, config, mode, response, now, cumulative_energy_wh, last_reading_time, readings_sent,
                    readings_failed, reading_buffer, cycle_start, reading,
                    current_time, energy_wh, sleep_time, diagnostic, log,
                    report, interrupted, skews, cycle, n_reads, submitted,
                    returned, cooldowns >>

\* run(), lines 365-366: an Exception raised in the try block is caught
CycleException ==
    /\ pc \in RaisePoints
    /\ log' = "error"
    /\ readings_failed' = FailedAfterException(readings_failed)
    /\ cyc' = [cyc EXCEPT !.raised = TRUE]
    /\ pc' = ExceptionTarget
    /\ UNCHANGED << acquired, produced, intervals, diag_readings, config, mode, response, now, cumulative_energy_wh, last_reading_time, readings_sent,
                    reading_buffer, cycle_start, reading, current_time,
                    energy_wh, poe_packet, sleep_time, diagnostic, report,
                    interrupted, skews, cycle, n_reads, built, submitted,
                    returned, cooldowns >>

\* send_to_oracle, lines 251-259: the packet is handed over and posted
SendStart ==
    /\ pc = "send"
    /\ submitted' = Append(submitted, Len(built))
    /\ cyc' = [cyc EXCEPT !.sends = @ + 1]
    /\ log' = "info"
    /\ pc' = "post"
    /\ UNCHANGED << acquired, produced, intervals, diag_readings, config, mode, response, now, cumulative_energy_wh, last_reading_time, readings_sent,
                    readings_failed, reading_buffer, cycle_start, reading,
                    current_time, energy_wh, poe_packet, sleep_time,
                    diagnostic, report, interrupted, skews, cycle, n_reads,
                    built, returned, cooldowns >>

\* send_to_oracle, lines 261-277: the post returns or raises; count; return
SendReturn ==
    /\ pc = "post"
    /\ \E outcome \in PostOutcomes, d \in PostDurations :
          LET res == send_to_oracle(readings_sent, readings_failed, outcome)
          IN  /\ readings_sent' = res.sent
              /\ readings_failed' = res.failed
              /\ log' = IF res.ok THEN "info" ELSE "error"
              /\ cyc' = [cyc EXCEPT !.send_failed = ~res.ok]
              /\ response' = outcome
              /\ now' = now + d
              /\ pc' = AfterSubmit(res.ok)
    /\ returned' = returned + 1
    /\ UNCHANGED << acquired, produced, intervals, diag_readings, config, mode, cumulative_energy_wh, last_reading_time, reading_buffer,
                    cycle_start, reading, current_time, energy_wh, poe_packet,
                    sleep_time, diagnostic, report, interrupted, skews, cycle,
                    n_reads, built, submitted, cooldowns >>

\* run(), lines 344-360: advance last_reading_time, log, compute the sleep
UpdateTime ==
    /\ pc = "update"
    /\ last_reading_time' = current_time
    /\ response' = NoResponse
    /\ sleep_time' = SleepTime(now - cycle_start)
    /\ IF sleep_time' > 0
       THEN /\ log' = "info"
            /\ pc' = "sleep"
       ELSE /\ log' = "warning"
            /\ pc' = "loop"
    /\ UNCHANGED << acquired, produced, intervals, diag_readings, config, mode, now, cumulative_energy_wh, readings_sent, readings_failed,
                    reading_buffer, cycle_start, reading, current_time,
                    energy_wh, poe_packet, diagnostic, report, interrupted,
                    skews, cycle, n_reads, built, submitted, returned,
                    cooldowns, cyc >>

\* run(), line 358: time.sleep(sleep_time) returns
Sleep ==
    /\ pc = "sleep"
    /\ now' = now + sleep_time
    /\ pc' = "loop"
    /\ UNCHANGED << acquired, produced, intervals, diag_readings, config, mode, response, cumulative_energy_wh, last_reading_time, readings_sent,
                    readings_failed, reading_buffer, cycle_start, reading,
                    current_time, energy_wh, poe_packet, sleep_time,
                    diagnostic, log, report, interrupted, skews, cycle,
                    n_reads, built, submitted, returned, cooldowns, cyc >>

\* run(), line 367: time.sleep(60) returns
Cooldown ==
    /\ pc = "cooldown"
    /\ now' = now + CooldownSeconds
    /\ cooldowns' = cooldowns + 1
    /\ pc' = "loop"
    /\ UNCHANGED << acquired, produced, intervals, diag_readings, config, mode, response, cumulative_energy_wh, last_reading_time, readings_sent,
                    readings_failed, reading_buffer, cycle_start, reading,
                    current_time, energy_wh, poe_packet, sleep_time,
                    diagnostic, log, report, interrupted, skews, cycle,
                    n_reads, built, submitted, returned, cyc >>

\* A KeyboardInterrupt is delivered: inside the try block the handler of
\* lines 362-364 breaks out of the loop; anywhere else in run() it leaves
\* run() and reaches the handler of main(), line 423.
Interrupt ==
    /\ ~interrupted
    /\ pc \in InTry \cup OutsideTry
    /\ interrupted' = TRUE
    /\ log' = "info"
    /\ pc' = InterruptTarget(pc)
    /\ UNCHANGED << acquired, produced, intervals, diag_readings, config, mode, response, now, cumulative_energy_wh, last_reading_time, readings_sent,
                    readings_failed, reading_buffer, cycle_start, reading,
                    current_time, energy_wh, poe_packet, sleep_time,
                    diagnostic, report, skews, cycle, n_reads, built,
                    submitted, returned, cooldowns, cyc >>

\* run(), line 370: the session statistics, then run() returns
Report ==
    /\ pc = "shutdown"
    /\ report' = << readings_sent, readings_failed >>
    /\ log' = "info"
    /\ pc' = "stopped"
    /\ UNCHANGED << acquired, produced, intervals, diag_readings, config, mode, response, now, cumulative_energy_wh, last_reading_time, readings_sent,
                    readings_failed, reading_buffer, cycle_start, reading,
                    current_time, energy_wh, poe_packet, sleep_time,
                    diagnostic, interrupted, skews, cycle, n_reads, built,
                    submitted, returned, cooldowns, cyc >>

\* main(), lines 423-424: "Application stopped by user", then main() returns
MainKeyboardInterrupt ==
    /\ pc = "main_except"
    /\ log' = "info"
    /\ pc' = "stopped"
    /\ UNCHANGED << acquired, produced, intervals, diag_readings, config, mode, response, now, cumulative_energy_wh, last_reading_time, readings_sent,
                    readings_failed, reading_buffer, cycle_start, reading,
                    current_time, energy_wh, poe_packet, sleep_time,
                    diagnostic, report, interrupted, skews, cycle, n_reads,
                    built, submitted, returned, cooldowns, cyc >>

\* The wall clock is set back (NTP step, manual change) while run() sleeps.
ClockStepBack ==
    /\ pc \in {"sleep", "cooldown"}
    /\ skews < MaxSkews
    /\ skews' = skews + 1
    /\ now' = now - SkewBack
    /\ UNCHANGED << acquired, produced, intervals, diag_readings, config, mode, response, pc, cumulative_energy_wh, last_reading_time, readings_sent,
                    readings_failed, reading_buffer, cycle_start, reading,
                    current_time, energy_wh, poe_packet, sleep_time,
                    diagnostic, log, report, interrupted, cycle, n_reads,
                    built, submitted, returned, cooldowns, cyc >>

Step ==
    \/ RunDiagnostic
    \/ LogDiagnostic
    \/ LoopTop
    \/ ReadSensors
    \/ Integrate
    \/ BuildPacket
    \/ SignPacket
    \/ CycleException
    \/ SendStart
    \/ SendReturn
    \/ UpdateTime
    \/ Sleep
    \/ Cooldown
    \/ Report
    \/ MainKeyboardInterrupt

Next ==
    \/ Step
    \/ Interrupt
    \/ ClockStepBack

Spec == Init /\ [][Next]_vars

\* The interpreter keeps executing run(): every step of the program that is
\* enabled is eventually taken.  Interrupts and clock steps come from outside
\* and are not fair.
FairSpec == Spec /\ WF_vars(Step)

\* load_config that does not ask for private_key
load_config_partial(f) ==
    IF f.file = "ok" /\ {"meter_id", "oracle_url"} \subseteq f.keys THEN "loaded" ELSE "raised"

\* load_config, lines 372-390: the file is opened and parsed, then every
\* required field must be present; FileNotFoundError, JSONDecodeError and the
\* ValueError of line 382 all leave the function as exceptions.
load_config(f) ==
    IF f.file = "ok" /\ RequiredKeys \subseteq f.keys THEN "loaded" ELSE "raised"

\* main(), line 406 (and 425-427 when load_config raises: the error is
\* logged and re-raised, so the interpreter ends with a traceback)
LoadConfig ==
    /\ pc = "main"
    /\ \E f \in ConfigFiles :
          /\ config' = f.keys
          /\ IF load_config(f) = "loaded"
             THEN pc' = "construct" /\ log' = log
             ELSE pc' = "crashed" /\ log' = "error"
    /\ UNCHANGED << acquired, produced, intervals, diag_readings, mode, response, now, cumulative_energy_wh,
                    last_reading_time, readings_sent, readings_failed,
                    reading_buffer, cycle_start, reading, current_time,
                    energy_wh, poe_packet, sleep_time, diagnostic, report,
                    interrupted, skews, cycle, n_reads, built, submitted,
                    returned, cooldowns, cyc >>

\* main(), line 413: SmartMeterReader(config).  __init__ indexes the three
\* required keys (lines 55-57, KeyError when one is absent) and
\* initialize_sensors re-raises what the sensor setup raises (lines 106-108).
Construct ==
    /\ pc = "construct"
    /\ \E sensors_ok \in BOOLEAN :
          IF RequiredKeys \subseteq config /\ sensors_ok
          THEN /\ cumulative_energy_wh' = 0
               /\ last_reading_time' = now
               /\ readings_sent' = 0
               /\ readings_failed' = 0
               /\ pc' = IF mode = "diagnostic" THEN "diag_cli" ELSE "diag"
               /\ log' = log
          ELSE /\ pc' = "crashed"
               /\ log' = "error"
               /\ UNCHANGED << cumulative_energy_wh, last_reading_time,
                               readings_sent, readings_failed >>
    /\ UNCHANGED << acquired, produced, intervals, diag_readings, config, mode, response, now,
                    reading_buffer, cycle_start, reading, current_time,
                    energy_wh, poe_packet, sleep_time, diagnostic, report,
                    interrupted, skews, cycle, n_reads, built, submitted,
                    returned, cooldowns, cyc >>

\* main(), line 417: reader.run_diagnostic() under --diagnostic
DiagnosticMode ==
    /\ pc = "diag_cli"
    /\ \E ins \in [1..DiagnosticReadings -> DiagnosticInputs] :
          /\ diag_readings' = diagnostic_readings(ins, now)
          /\ diagnostic' = run_diagnostic(diag_readings', cumulative_energy_wh)
    /\ n_reads' = n_reads + Len(diag_readings')
    /\ now' = now + DiagnosticSeconds
    /\ pc' = "diag_print"
    /\ UNCHANGED << acquired, produced, intervals, config, mode, response, cumulative_energy_wh,
                    last_reading_time, readings_sent, readings_failed,
                    reading_buffer, cycle_start, reading, current_time,
                    energy_wh, poe_packet, sleep_time, log, report,
                    interrupted, skews, cycle, built, submitted,
                    returned, cooldowns, cyc >>

\* main(), line 418: the result is printed and main() returns
PrintDiagnostic ==
    /\ pc = "diag_print"
    /\ pc' = "stopped"
    /\ UNCHANGED << acquired, produced, intervals, diag_readings, config, mode, response, now,
                    cumulative_energy_wh, last_reading_time, readings_sent,
                    readings_failed, reading_buffer, cycle_start, reading,
                    current_time, energy_wh, poe_packet, sleep_time,
                    diagnostic, log, report, interrupted, skews, cycle,
                    n_reads, built, submitted, returned, cooldowns, cyc >>

\* A sensor access that fails or reads 230 V and 10 A
PlainReadSensors == ReadSensors /\ reading'.current >= 0

\* An Exception raised while the packet is built
BuildException == CycleException /\ pc = "build"

\* A submission answered with status 200 within a second
QuickSendReturn ==
    SendReturn /\ IsSuccess(response') /\ now' = now + 1

\* The steps of run() over MaxBufferCycles cycles, with one valid reading,
\* one failing sensor access, one raise point and one outcome of the post
BufferStep ==
    \/ RunDiagnostic
    \/ LogDiagnostic
    \/ LoopTopAt(MaxBufferCycles)
    \/ PlainReadSensors
    \/ Integrate
    \/ BuildPacket
    \/ SignPacket
    \/ BuildException
    \/ SendStart
    \/ QuickSendReturn
    \/ UpdateTime
    \/ Sleep
    \/ Cooldown
    \/ Report
    \/ MainKeyboardInterrupt

BufferNext == BufferStep \/ Interrupt

\* run() for as many cycles as it takes the rolling buffer to evict
BufferSpec == Init /\ [][BufferNext]_vars

\* Arguments for calculate_energy: volts, amperes (a reversed clamp reads
\* negative), power factor in hundredths, seconds (negative after the clock
\* was set back)
CalcVoltages == {0, 115, 230}
CalcCurrents == {-10, 0, 10}
CalcPowerFactors == {0, power_factor}
CalcTimeDeltas == {-HoursDen, -reading_interval, 0, 1, reading_interval, HoursDen}

\* The reading calculate_energy is given
CalcReading(v, i, pf) ==
    [NoReading EXCEPT !.voltage = v, !.current = i, !.power_factor = pf]

\* A reader whose method calculate_energy is about to be called with a
\* reading and a time delta (last_reading_time is 0, current_time the delta)
CalcInit ==
    /\ pc = "calc"
    /\ config = RequiredKeys
    /\ mode = "run"
    /\ \E v \in CalcVoltages, i \in CalcCurrents, pf \in CalcPowerFactors :
          reading = CalcReading(v, i, pf)
    /\ current_time \in CalcTimeDeltas
    /\ Fresh

\* calculate_energy(reading, time_delta), lines 164-184
CalculateEnergy ==
    /\ pc = "calc"
    /\ energy_wh' = calculate_energy(reading, current_time - last_reading_time)
    /\ pc' = "calc_done"
    /\ UNCHANGED << acquired, produced, intervals, diag_readings, config, mode,
                    response, now, cumulative_energy_wh, last_reading_time,
                    readings_sent, readings_failed, reading_buffer,
                    cycle_start, reading, current_time, poe_packet,
                    sleep_time, diagnostic, log, report, interrupted, skews,
                    cycle, n_reads, built, submitted, returned, cooldowns,
                    cyc >>

CalcNext == CalculateEnergy

\* calculate_energy applied to every argument of the sets above
CalcSpec == CalcInit /\ [][CalcNext]_vars

\* main() is entered: nothing is loaded, --diagnostic is given or not
MainInit == \E m \in {"run", "diagnostic"} : InitAt("main", {}, m)

MainNext ==
    \/ LoadConfig
    \/ Construct
    \/ DiagnosticMode
    \/ PrintDiagnostic
    \/ Next

\* The program from the entry of main()
MainSpec == MainInit /\ [][MainNext]_vars

\* -------------------------------------------------------------- properties
Last(q) == q[Len(q)]

\* The dictionary without one key
WithoutKey(d, key) == [k \in (DOMAIN d) \ {key} |-> d[k]]

\* What a collector verifies of a packet: the signature against the
\* canonical encoding of the packet without its signature field
Verifies(packet) ==
    sign_packet(WithoutKey(packet, "signature")) = packet["signature"]

\* C1: cumulative_energy_wh is never negative and no step of run() -- normal,
\* skipped, failed or interrupted cycle -- decreases it.
C1_CumulativeMonotonic ==
    /\ [](cumulative_energy_wh >= 0)
    /\ [][cumulative_energy_wh' >= cumulative_energy_wh]_vars

\* C1 witness: a cycle whose raw product power * time was negative has been
\* integrated (the clamp acted) while the total already held energy.
C1_Witness ==
    /\ cyc.integrated
    /\ reading.voltage * reading.current * (current_time - last_reading_time) < 0
    /\ pc = "update"
    /\ cumulative_energy_wh > 0

\* C2: a cycle whose increment is <= 0 builds and sends nothing and leaves the
\* total unchanged, its reading is the newest entry of the buffer, and it goes
\* on to advance last_reading_time to its current_time; a packet is built or
\* sent only in a cycle whose increment is > 0.
C2_SkipCycle ==
    /\ []((cyc.integrated /\ energy_wh <= 0) =>
            /\ ~cyc.built
            /\ cyc.sends = 0
            /\ pc \notin {"build", "sign", "send", "post", "cooldown"}
            /\ cumulative_energy_wh = cyc.cum0
            /\ Last(reading_buffer) = reading)
    /\ []((cyc.built \/ cyc.sends > 0 \/ pc \in {"build", "sign", "send", "post"}) =>
            (cyc.integrated /\ energy_wh > 0))
    /\ [][(pc = "integrate" /\ ~interrupted' /\ energy_wh' <= 0) =>
            pc' = "update"]_vars
    /\ [][(pc = "update" /\ ~interrupted') =>
            (last_reading_time' = current_time /\ pc' \in {"sleep", "loop"})]_vars

\* C2 witness: a skipped cycle, taken with a valid (non-zero) reading, is in
\* its sleep with the clock advanced and nothing built.
C2_Witness ==
    /\ pc = "sleep"
    /\ cyc.integrated
    /\ energy_wh <= 0
    /\ reading.voltage > 0
    /\ Len(reading_buffer) >= 2
    /\ last_reading_time = current_time
    /\ ~cyc.built

\* C3: every packet returned by create_poe_packet carries a signature that
\* verifies against the canonical encoding of the packet with only the
\* signature field removed.
C3_SignatureVerifies ==
    \A i \in 1..Len(built) : Verifies(built[i])

\* C4: a send_to_oracle call that returns adds exactly 1 to readings_sent and
\* returns True when the status is 200, adds exactly 1 to readings_failed and
\* returns False otherwise, goes back to the loop without raising, and no step
\* decreases either counter.
C4_SendCounts ==
    /\ [][returned' = returned + 1 =>
            /\ pc' = "update"
            /\ IF response'.kind = "status" /\ response'.status = 200
               THEN /\ readings_sent' = readings_sent + 1
                    /\ readings_failed' = readings_failed
                    /\ ~cyc'.send_failed
               ELSE /\ readings_sent' = readings_sent
                    /\ readings_failed' = readings_failed + 1
                    /\ cyc'.send_failed]_vars
    /\ [][/\ readings_sent' >= readings_sent
          /\ readings_failed' >= readings_failed]_vars

\* C4 witness: calls have returned with each kind of outcome.
C4_Witness ==
    /\ readings_sent >= 1
    /\ readings_failed >= 2
    /\ returned = readings_sent + readings_failed
    /\ response.kind = "timeout"

\* C5: an Exception raised inside a cycle never ends the loop: the handler
\* sleeps the 60 s cooldown and the loop starts a new cycle (reads the sensors
\* again) unless a shutdown interrupt arrives; run() stops only after an
\* interrupt.
C5_ExceptionNotFatal ==
    /\ [][(~cyc.raised /\ cyc'.raised) => pc' = "cooldown"]_vars
    /\ [][(pc = "cooldown" /\ pc' # "cooldown") =>
            (interrupted' \/ (pc' = "loop" /\ now' = now + 60))]_vars
    /\ [](pc \in {"shutdown", "main_except", "stopped"} => interrupted)
    /\ ((pc = "cooldown" /\ cycle < MaxCycles) ~> (pc = "read" \/ interrupted))

\* C5 witness: after a failed cycle and its cooldown a new cycle is reading
\* the sensors.
C5_Witness ==
    /\ cooldowns >= 1
    /\ pc = "read"
    /\ ~interrupted
    /\ now >= 60

\* C6: whenever a cycle is aborted by an Exception, readings_failed is
\* incremented for that cycle.
C6_ExceptionCounted ==
    [][(~cyc.raised /\ cyc'.raised) =>
          readings_failed' = readings_failed + 1]_vars

\* C7: after a submission that is rejected or hits a transport failure the
\* loop takes the cooldown path (sleeps 60 s) before the next cycle, and the
\* failed packet is never sent again.
C7_FailedSubmissionCooldown ==
    /\ [][(returned' = returned + 1 /\ cyc'.send_failed) =>
            pc' = "cooldown"]_vars
    /\ [](\A i, j \in 1..Len(submitted) :
            i # j => submitted[i] # submitted[j])

\* C8: once a KeyboardInterrupt has been delivered -- in the sleep or anywhere
\* in a cycle -- run() goes to Stopped without letting time pass in a sleep
\* and without a further sensor read, packet build or send_to_oracle call; a
\* packet not yet handed to send_to_oracle is never submitted.
C8_InterruptStops ==
    /\ [](interrupted => pc \in {"shutdown", "main_except", "stopped"})
    /\ [][interrupted' =>
            /\ n_reads' = n_reads
            /\ built' = built
            /\ submitted' = submitted
            /\ poe_packet' = poe_packet
            /\ cooldowns' = cooldowns
            /\ now' = now]_vars
    /\ (interrupted ~> (pc = "stopped"))

\* C8 witness: the interrupt came when the packet of the cycle was built and
\* signed but not yet handed to send_to_oracle; run() has stopped.
C8_Witness ==
    /\ interrupted
    /\ pc = "stopped"
    /\ cyc.built
    /\ cyc.sends = 0
    /\ Len(submitted) < Len(built)

\* C9: whenever run() is stopped by a KeyboardInterrupt -- in the start-up
\* diagnostic, inside a cycle, in the sleep between cycles or in the 60 s
\* cooldown -- the final readings_sent / readings_failed are reported.
C9_StoppedReportsCounts ==
    pc = "stopped" => report = << readings_sent, readings_failed >>

\* C10: cycles do not overlap and a cycle calls send_to_oracle at most once:
\* a call is in flight only while the cycle is posting, the sensors are read
\* only when every earlier call has returned, and no packet is handed to
\* send_to_oracle twice.
C10_OneSendPerCycle ==
    /\ cyc.sends <= 1
    /\ Len(submitted) <= cycle
    /\ Len(submitted) - returned \in {0, 1}
    /\ (Len(submitted) # returned => (pc = "post" \/ interrupted))
    /\ (pc \in {"loop", "read", "integrate"} => returned = Len(submitted))
    /\ \A i, j \in 1..Len(submitted) : i # j => submitted[i] # submitted[j]

\* C10 witness: a later cycle reads the sensors after two earlier cycles each
\* made their one call, one of which failed.
C10_Witness ==
    /\ pc = "read"
    /\ Len(submitted) >= 2
    /\ returned = Len(submitted)
    /\ readings_failed >= 1

AbsDiff(a, b) == IF a >= b THEN a - b ELSE b - a

\* The diagnostic has returned and its result is about to be logged or printed
DiagnosticDone == pc \in {"diag_log", "diag_print"}

\* What every diagnostic does apart from the averages: exactly five readings,
\* no packet built or signed, nothing sent, and the verdict 'OK' exactly when
\* the mean voltage is positive
DiagnosticSideConditions ==
    /\ Len(diag_readings) = 5
    /\ diagnostic.readings_taken = 5
    /\ n_reads = 5
    /\ built = << >>
    /\ submitted = << >>
    /\ returned = 0
    /\ poe_packet = NoPacket
    /\ (diagnostic.sensor_status = "OK") <=> (SumOf(diag_readings, "voltage") > 0)
    /\ diagnostic.sensor_status \in {"OK", "ERROR"}

\* C11 (amended): run_diagnostic takes exactly five readings, builds, signs
\* and sends nothing, reports readings_taken = 5 and 'OK' exactly when the
\* mean voltage is above zero, and returns as voltage_avg and current_avg the
\* arithmetic means of the five readings rounded to two decimals (within half
\* a hundredth of the mean).
C11_DiagnosticRoundedMean ==
    DiagnosticDone =>
        /\ DiagnosticSideConditions
        /\ 2 * AbsDiff(5 * diagnostic.voltage_avg, SumOf(diag_readings, "voltage")) <= 5
        /\ 2 * AbsDiff(5 * diagnostic.current_avg, SumOf(diag_readings, "current")) <= 5

\* C11 as stated: the averages returned are equal to the arithmetic means.
C11_DiagnosticExactMean ==
    DiagnosticDone =>
        /\ DiagnosticSideConditions
        /\ 5 * diagnostic.voltage_avg = SumOf(diag_readings, "voltage")
        /\ 5 * diagnostic.current_avg = SumOf(diag_readings, "current")

\* The diagnostic of --diagnostic read 100, 110, 120, 130 and 140 V and
\* returned 120 V.
C11_Witness ==
    /\ pc = "diag_print"
    /\ [i \in 1..5 |-> diag_readings[i].voltage] = << 10000, 11000, 12000, 13000, 14000 >>
    /\ diagnostic.voltage_avg = 12000
    /\ diagnostic.readings_taken = 5
    /\ diagnostic.sensor_status = "OK"

\* C12: at every moment, after any number of cycles (skipped and failed ones
\* included), cumulative_energy_wh is the sum, from 0, of the increments
\* calculate_energy returned, none of which is negative.
C12_CumulativeIsSum ==
    /\ cumulative_energy_wh = produced
    /\ energy_wh >= 0
    /\ produced >= 0

\* Three cycles are over: one raised after its increment, one was skipped,
\* two added to the total.
C12_Witness ==
    /\ pc = "loop"
    /\ cycle = 3
    /\ cooldowns >= 1
    /\ Len(intervals) = 2
    /\ cumulative_energy_wh > 0
    /\ cumulative_energy_wh = produced

\* The time delta calculate_energy was called with
CalcDelta == current_time - last_reading_time

\* C13: calculate_energy returns max(0, V x I x pf x dt / 3600) (here as
\* the numerator over EnergyDen, pf being in hundredths): never a
\* negative value, negative time deltas included, 0 when the time delta is
\* 0, and 2185 Wh for 230 V, 10 A, power factor 0.95 over 3600 s.
C13_CalculateEnergy ==
    pc = "calc_done" =>
        /\ energy_wh >= 0
        /\ (CalcDelta = 0 => energy_wh = 0)
        /\ energy_wh = Max(0, reading.voltage * reading.current
                                * reading.power_factor * CalcDelta)
        /\ (reading.voltage = 230 /\ reading.current = 10
             /\ reading.power_factor = 95 /\ CalcDelta = 3600
                => energy_wh = 2185 * EnergyDen)

\* calculate_energy has returned 2185 Wh for 230 V, 10 A, 0.95 and 3600 s.
C13_Witness ==
    /\ pc = "calc_done"
    /\ reading.voltage = 230
    /\ reading.current = 10
    /\ reading.power_factor = 95
    /\ CalcDelta = 3600
    /\ energy_wh = 2185 * EnergyDen

\* load_config has been called on a file lacking a required key
ConfigIncomplete == pc # "main" /\ ~(RequiredKeys \subseteq config)

\* C14: when the configuration lacks meter_id, oracle_url or private_key,
\* startup fails with an error in load_config, before a SmartMeterReader is
\* constructed: no sensor is read, no cycle starts, nothing is submitted and
\* the process does not end cleanly.
C14_IncompleteConfigFails ==
    ConfigIncomplete =>
        /\ pc = "crashed"
        /\ log = "error"
        /\ n_reads = 0
        /\ cycle = 0
        /\ built = << >>
        /\ submitted = << >>
        /\ diagnostic = NoDiagnostic

\* Startup has failed on a configuration without private_key.
C14_Witness ==
    /\ pc = "crashed"
    /\ config = {"meter_id", "oracle_url"}
    /\ log = "error"
    /\ n_reads = 0

\* The reading of lines 153-162: every measured field is zero
AllZero(r) ==
    /\ r.voltage = 0
    /\ r.current = 0
    /\ r.power_factor = 0
    /\ r.frequency = 0
    /\ r.temperature = 0
    /\ r.humidity = 0

\* C15: a failed access to the transducers does not raise out of
\* read_sensors: the cycle goes on to the integration with an all-zero
\* reading, accrues no energy, builds and sends nothing, and ends as a
\* skipped cycle, not through the exception handler and its cool-down.
C15_FaultIsSkippedCycle ==
    /\ [](cyc.fault =>
            /\ AllZero(reading)
            /\ Last(reading_buffer) = reading
            /\ ~cyc.raised
            /\ ~cyc.built
            /\ cyc.sends = 0
            /\ cumulative_energy_wh = cyc.cum0
            /\ (cyc.integrated => energy_wh = 0)
            /\ pc \notin {"build", "sign", "send", "post", "cooldown"})
    /\ [][(pc = "read" /\ pc' # pc /\ ~interrupted') => pc' = "integrate"]_vars
    /\ [][(cyc.fault /\ pc = "integrate" /\ pc' # pc /\ ~interrupted') =>
            pc' = "update"]_vars
    /\ [][(cyc.fault /\ pc = "update" /\ pc' # pc /\ ~interrupted') =>
            (pc' \in {"sleep", "loop"} /\ cooldowns' = cooldowns)]_vars

\* A cycle whose sensor access failed is in its sleep, nothing accrued.
C15_Witness ==
    /\ pc = "sleep"
    /\ cyc.fault
    /\ cyc.integrated
    /\ AllZero(reading)
    /\ energy_wh = 0
    /\ now > 0
    /\ cumulative_energy_wh = cyc.cum0

\* send_to_oracle has just returned from a post that was answered
Answered == pc = "update" /\ response.kind = "status"

\* C16 (amended): send_to_oracle counts a response as sent, and returns
\* success, exactly when its status is 200; every other status, 201 and the
\* other 2xx included, is counted as failed and returned as a failure.
C16_Only200IsSuccess ==
    /\ [](Answered => (cyc.send_failed <=> response.status # 200))
    /\ [][(returned' = returned + 1 /\ response'.kind = "status") =>
            /\ (response'.status = 200) =>
                   /\ readings_sent' = readings_sent + 1
                   /\ readings_failed' = readings_failed
            /\ (response'.status # 200) =>
                   /\ readings_sent' = readings_sent
                   /\ readings_failed' = readings_failed + 1]_vars

\* C16 as stated: a response is a success exactly when its status is 2xx.
C16_Every2xxIsSuccess ==
    Answered => (cyc.send_failed <=> response.status \notin 200..299)

\* A response with status 201 has been counted as a failure.
C16_Witness ==
    /\ Answered
    /\ response.status = 201
    /\ cyc.send_failed
    /\ readings_failed >= 1
    /\ readings_sent = 0

\* C17: no elapsed time is integrated into cumulative_energy_wh twice: while
\* the clock has not been set back, the intervals from last_reading_time to
\* current_time whose energy was added to the total do not overlap, a cycle
\* that raised after its increment included.
C17_NoDoubleIntegration ==
    skews = 0 =>
        \A i, j \in 1..Len(intervals) :
            i < j => intervals[i][2] <= intervals[j][1]

\* C18: a cycle that ends without exception sleeps exactly
\* max(0, reading_interval - cycle time); when the cycle took the interval or
\* longer it does not sleep, logs a warning, takes no cool-down and goes
\* straight to the next cycle; after a sleep, and after an overrun, exactly
\* one new cycle starts, from the current time.
C18_SleepsRemainder ==
    /\ [][(pc = "update" /\ pc' # pc /\ ~interrupted') =>
            /\ sleep_time' = Max(0, reading_interval - (now - cycle_start))
            /\ now' = now
            /\ cooldowns' = cooldowns
            /\ cycle' = cycle
            /\ IF now - cycle_start >= reading_interval
               THEN pc' = "loop" /\ log' = "warning" /\ sleep_time' = 0
               ELSE pc' = "sleep" /\ log' # "warning" /\ sleep_time' > 0]_vars
    /\ [][(pc = "sleep" /\ pc' # pc /\ ~interrupted') =>
            /\ pc' = "loop"
            /\ now' = now + sleep_time
            /\ cycle' = cycle
            /\ cooldowns' = cooldowns]_vars
    /\ [][(pc = "loop" /\ pc' # pc /\ ~interrupted') =>
            /\ pc' = "read"
            /\ cycle' = cycle + 1
            /\ cycle_start' = now
            /\ now' = now]_vars
    /\ [](pc = "sleep" => (sleep_time > 0 /\ sleep_time <= reading_interval))

\* A cycle whose submission took the whole time-out is over: no sleep, a
\* warning, and the loop is at its head again.
C18_Witness ==
    /\ pc = "loop"
    /\ cycle >= 1
    /\ cyc.sends = 1
    /\ ~cyc.raised
    /\ now - cycle_start >= reading_interval
    /\ sleep_time = 0
    /\ log = "warning"

\* The k most recent elements of q, in order
LastOf(q, k) == SubSeq(q, Len(q) - k + 1, Len(q))

\* The most recent min(k, 6) of the k readings the loop has taken
RecentReadings ==
    LastOf(acquired, IF Len(acquired) < 6 THEN Len(acquired) ELSE 6)

\* C19: at every packet build and at the end of every cycle (indeed at every
\* moment) the rolling buffer holds at most 6 readings, exactly the most
\* recent min(k, 6) of the k readings the loop has taken, in the order they
\* were taken; every packet carries the buffer of its cycle; and the
\* increment is computed from the newest reading and the elapsed time alone.
C19_RollingBuffer ==
    /\ [](/\ Len(reading_buffer) <= 6
          /\ (n_reads = 0 => acquired = << >>)
          /\ (n_reads > 0 => n_reads = 5 + Len(acquired))
          /\ reading_buffer = RecentReadings
          /\ (pc \in {"sign", "send", "post"} =>
                 poe_packet.sensor_readings = RecentReadings)
          /\ (cyc.sends > 0 => Last(built).sensor_readings = RecentReadings))
    /\ [][(pc = "integrate" /\ pc' \in {"build", "update"}) =>
            energy_wh' = calculate_energy(Last(acquired),
                                          now - last_reading_time)]_vars

\* The seventh reading has been taken and its packet is about to be built:
\* the buffer holds readings 2 to 7.
C19_Witness ==
    /\ pc = "build"
    /\ Len(acquired) = 7
    /\ Len(reading_buffer) = 6
    /\ reading_buffer[1] = acquired[2]
    /\ reading_buffer[1] # acquired[1]
    /\ reading_buffer[6] = acquired[7]

\* Positions at which the next step is made by read_sensors, by
\* create_poe_packet and sign_packet, by send_to_oracle, by run_diagnostic or
\* by the exception handler that follows a failure of one of them
MethodPositions ==
    {"diag", "diag_cli", "diag_log", "diag_print", "read", "build", "sign",
     "send", "post", "cooldown"}

\* C20: cumulative_energy_wh is written only by the increment of run()
\* (line 335) and last_reading_time only by the assignment that closes the
\* integration (line 344); read_sensors, create_poe_packet, sign_packet,
\* send_to_oracle and run_diagnostic, whether they return or raise, leave
\* both as they were.
C20_OnlyIntegrationWrites ==
    /\ [][(pc \in MethodPositions) =>
            (/\ cumulative_energy_wh' = cumulative_energy_wh
             /\ last_reading_time' = last_reading_time)]_vars
    /\ [][(cumulative_energy_wh' # cumulative_energy_wh) =>
            (/\ pc = "integrate"
             /\ cumulative_energy_wh' = cumulative_energy_wh
                    + calculate_energy(reading, now - last_reading_time))]_vars
    /\ [][(last_reading_time' # last_reading_time) =>
            (/\ pc = "update"
             /\ last_reading_time' = current_time)]_vars

\* A packet was built, signed and sent, the submission failed, and the total
\* holds the increment of this cycle only, with last_reading_time still at
\* the value the cycle began with.
C20_Witness ==
    /\ pc = "update"
    /\ cyc.sends = 1
    /\ cyc.send_failed
    /\ n_reads = 6
    /\ energy_wh > 0
    /\ cumulative_energy_wh = cyc.cum0 + energy_wh
    /\ last_reading_time = 0
    /\ current_time > last_reading_time

RECURSIVE SumEnergy(_)
\* The sum of the energy_wh fields of a sequence of packets
SumEnergy(packets) ==
    IF packets = << >> THEN 0
    ELSE packets[1].energy_wh + SumEnergy(Tail(packets))

\* C21: packets never over-report energy: the whole-Wh energy_wh fields of
\* all packets built so far add up to no more than cumulative_energy_wh (an
\* integer is at most the total exactly when it is at most the truncated
\* total), and every packet's cumulative_energy is at least its own
\* energy_wh and at least the cumulative_energy of every earlier packet.
C21_NoOverReport ==
    /\ SumEnergy(built) <= IntTrunc(cumulative_energy_wh, EnergyDen)
    /\ \A i \in 1..Len(built) :
          /\ built[i].energy_wh >= 0
          /\ built[i].cumulative_energy >= built[i].energy_wh
          /\ built[i].cumulative_energy <= IntTrunc(cumulative_energy_wh, EnergyDen)
          /\ \A j \in 1..(i - 1) :
                built[i].cumulative_energy >= built[j].cumulative_energy

\* Two packets are built, the later one reports whole watt-hours, and the
\* fractions dropped by the truncation leave the packets below the total.
C21_Witness ==
    /\ Len(built) >= 2
    /\ built[1].energy_wh >= 0
    /\ built[2].energy_wh > 0
    /\ built[2].cumulative_energy > built[1].cumulative_energy
    /\ SumEnergy(built) < built[2].cumulative_energy
    /\ cumulative_energy_wh % EnergyDen # 0

====
